---------------------------- MODULE Spec2Model ----------------------------
(***************************************************************************)
(* A model of the real-estate analysis service (src/api/views.py): the     *)
(* price normalizer parse_price, the memoized dataset loader               *)
(* load_dataframe, and the two request handlers upload_file and analyze.   *)
(*                                                                         *)
(* Text is modelled as a sequence of one-character strings, so that        *)
(* trimming, lower-casing, substring search, splitting and the regular     *)
(* expression of the query window are computed character by character.     *)
(* Floating point numbers are modelled as exact rationals <<n, d>> in      *)
(* lowest terms with d > 0.                                                *)
(*                                                                         *)
(* Every record constructor lists its fields in the order in which TLC     *)
(* keeps them (the order in which the names first occur in the module),    *)
(* so that a record is in normal form from the moment it is built and a    *)
(* value read by several TLC workers at once is never rearranged.          *)
(***************************************************************************)
EXTENDS Integers, Sequences, FiniteSets, TLC

(***************************************************************************)
(* Bounds of the model.                                                    *)
(***************************************************************************)
\* longest exhaustively enumerated price string
MaxLen == 3
\* most rows of an exhaustively enumerated dataset
MaxRows == 3
\* most rows of an exhaustively enumerated dataset of price cells
MaxPriceRows == 2
\* most requests the threads take in the concurrent specification
MaxCalls == 3
\* the request threads
NumThreads == 2

(***************************************************************************)
(* Text.                                                                   *)
(***************************************************************************)
Digits == {"0", "1", "2", "3", "4", "5", "6", "7", "8", "9"}

DigitVal(c) ==
  CASE c = "0" -> 0 [] c = "1" -> 1 [] c = "2" -> 2 [] c = "3" -> 3
    [] c = "4" -> 4 [] c = "5" -> 5 [] c = "6" -> 6 [] c = "7" -> 7
    [] c = "8" -> 8 [] c = "9" -> 9

\* the characters str.strip() and the regular expression's \s treat as space
Whitespace == {" "}

LowerPairs ==
  { <<"A", "a">>, <<"B", "b">>, <<"C", "c">>, <<"D", "d">>, <<"E", "e">>,
    <<"F", "f">>, <<"G", "g">>, <<"H", "h">>, <<"I", "i">>, <<"J", "j">>,
    <<"K", "k">>, <<"L", "l">>, <<"M", "m">>, <<"N", "n">>, <<"O", "o">>,
    <<"P", "p">>, <<"Q", "q">>, <<"R", "r">>, <<"S", "s">>, <<"T", "t">>,
    <<"U", "u">>, <<"V", "v">>, <<"W", "w">>, <<"X", "x">>, <<"Y", "y">>,
    <<"Z", "z">> }

\* str.lower() on one character
LowerChar(c) ==
  IF \E p \in LowerPairs : p[1] = c
    THEN (CHOOSE p \in LowerPairs : p[1] = c)[2]
    ELSE c

\* the upper-case form of one character (str.title() on a word's first letter)
UpperChar(c) ==
  IF \E p \in LowerPairs : p[2] = c
    THEN (CHOOSE p \in LowerPairs : p[2] = c)[1]
    ELSE c

IsAlpha(c) == \E p \in LowerPairs : c = p[1] \/ c = p[2]

\* str.lower()
Lower(s) == [i \in 1..Len(s) |-> LowerChar(s[i])]

\* str.strip()
Strip(s) ==
  LET keep == {i \in 1..Len(s) : s[i] \notin Whitespace}
  IN  IF keep = {} THEN <<>>
      ELSE LET lo == CHOOSE i \in keep : \A j \in keep : i <= j
               hi == CHOOSE i \in keep : \A j \in keep : j <= i
           IN  SubSeq(s, lo, hi)

\* whether sub occurs in s at position i
OccursAt(sub, s, i) ==
  /\ i >= 1
  /\ i + Len(sub) - 1 <= Len(s)
  /\ \A k \in 1..Len(sub) : s[i + k - 1] = sub[k]

\* sub in s
Contains(sub, s) == \E i \in 1..(Len(s) + 1) : OccursAt(sub, s, i)

\* s.endswith(suffix)
EndsWith(s, suffix) ==
  /\ Len(suffix) <= Len(s)
  /\ OccursAt(suffix, s, Len(s) - Len(suffix) + 1)

\* str.title(): the first letter of every run of letters in upper case, the
\* other letters in lower case
Title(s) ==
  [i \in 1..Len(s) |->
     IF i = 1 \/ ~IsAlpha(s[i - 1]) THEN UpperChar(s[i]) ELSE LowerChar(s[i])]

\* s.split(sep) for a one-character separator
RECURSIVE Split(_, _)
Split(s, sep) ==
  IF \A i \in 1..Len(s) : s[i] # sep THEN <<s>>
  ELSE LET p == CHOOSE i \in 1..Len(s) :
                  /\ s[i] = sep
                  /\ \A j \in 1..(i - 1) : s[j] # sep
       IN  <<SubSeq(s, 1, p - 1)>> \o Split(SubSeq(s, p + 1, Len(s)), sep)

\* the value of a run of decimal digits
RECURSIVE DigitsVal(_)
DigitsVal(s) ==
  IF s = <<>> THEN 0
  ELSE 10 * DigitsVal(SubSeq(s, 1, Len(s) - 1)) + DigitVal(s[Len(s)])

RECURSIVE Pow10(_)
Pow10(k) == IF k = 0 THEN 1 ELSE 10 * Pow10(k - 1)

(***************************************************************************)
(* Exact rationals standing for floats.                                    *)
(***************************************************************************)
Abs(x) == IF x < 0 THEN -x ELSE x

RECURSIVE Gcd(_, _)
Gcd(a, b) == IF b = 0 THEN a ELSE Gcd(b, a % b)

Rat(n, d) ==
  LET g == Gcd(Abs(n), Abs(d))
      s == IF d < 0 THEN -1 ELSE 1
  IN  <<(s * n) \div g, (s * d) \div g>>

RInt(n) == <<n, 1>>
RAdd(x, y) == Rat(x[1] * y[2] + y[1] * x[2], x[2] * y[2])
RSub(x, y) == Rat(x[1] * y[2] - y[1] * x[2], x[2] * y[2])
RMul(x, y) == Rat(x[1] * y[1], x[2] * y[2])
RDiv(x, y) == Rat(x[1] * y[2], x[2] * y[1])

RECURSIVE RSum(_)
RSum(xs) == IF xs = <<>> THEN RInt(0) ELSE RAdd(xs[1], RSum(Tail(xs)))

\* sum(xs) / len(xs), for a non-empty sequence
RMean(xs) == RDiv(RSum(xs), RInt(Len(xs)))

\* x rounded to k decimals, ties to the even digit
RRound(x, k) ==
  LET num == x[1] * Pow10(k)
      q == num \div x[2]
      twice == 2 * (num % x[2])
      up == twice > x[2] \/ (twice = x[2] /\ q % 2 = 1)
  IN  Rat(IF up THEN q + 1 ELSE q, Pow10(k))

(***************************************************************************)
(* The price normalizer.                                                   *)
(***************************************************************************)
None == [ok |-> FALSE, v |-> <<0, 1>>]
Some(x) == [ok |-> TRUE, v |-> x]

\* the number an unsigned decimal stands for: digits with at most one
\* decimal point and at least one digit; None for anything else
Unsigned(body) ==
  IF /\ \A i \in 1..Len(body) : body[i] \in Digits \/ body[i] = "."
     /\ Cardinality({i \in 1..Len(body) : body[i] = "."}) <= 1
     /\ \E i \in 1..Len(body) : body[i] \in Digits
    THEN Some(Rat(DigitsVal(SelectSeq(body, LAMBDA c : c \in Digits)),
                  Pow10(Cardinality({i \in 1..Len(body) :
                                       \E j \in 1..(i - 1) : body[j] = "."}))))
    ELSE None

Negated(r) == IF r.ok THEN Some(<<-r.v[1], r.v[2]>>) ELSE None

Signed(s) ==
  IF s # <<>> /\ s[1] = "-" THEN Negated(Unsigned(Tail(s))) ELSE Unsigned(s)

\* float(s) for a string of digits, ".", "-", blanks and characters that are
\* part of no number: blanks around are skipped, a sign may lead
ParseFloat(s) == Signed(Strip(s))

\* re.sub(r"[^\d.]", "", s)
StripNonNumeric(s) == SelectSeq(s, LAMBDA c : c \in Digits \/ c = ".")

\* the mean of the parts when every part is a number, else None
MeanOfParts(parts) ==
  IF \A i \in 1..Len(parts) : ParseFloat(parts[i]).ok
    THEN Some(RMean([i \in 1..Len(parts) |-> ParseFloat(parts[i]).v]))
    ELSE None

\* "parts = [float(x) for x in s.split("-")]; return sum(parts) / len(parts)"
\* and "except: return None"
ParseParts(s) == MeanOfParts(Split(s, "-"))

\* parse_price with the range branch falling through to the stripping step
ParsePriceFallThrough(s) ==
  IF ParseFloat(s).ok THEN ParseFloat(s)
  ELSE IF Contains(<<"-">>, s) /\ ParseParts(s).ok THEN ParseParts(s)
  ELSE ParseFloat(StripNonNumeric(s))

\* parse_price(value) for a string value
ParsePrice(s) ==
  IF ParseFloat(s).ok THEN ParseFloat(s)
  ELSE IF Contains(<<"-">>, s) THEN ParseParts(s)
  ELSE ParseFloat(StripNonNumeric(s))


(***************************************************************************)
(* The location matcher.                                                   *)
(***************************************************************************)
\* the similarity cutoff of fuzzy_match_location, 0.8, as a fraction
CutoffNum == 8
CutoffDen == 10

\* the length of the common run of a from i and b from j, inside [.., ahi)
\* and [.., bhi)
RECURSIVE RunLen(_, _, _, _, _, _)
RunLen(a, b, i, j, ahi, bhi) ==
  IF i < ahi /\ j < bhi /\ a[i] = b[j]
    THEN 1 + RunLen(a, b, i + 1, j + 1, ahi, bhi)
    ELSE 0

\* SequenceMatcher.find_longest_match without junk: the longest block, of
\* those the one starting earliest in a, of those the one earliest in b
FindLongestMatch(a, b, alo, ahi, blo, bhi) ==
  LET size(c) == RunLen(a, b, c[1], c[2], ahi, bhi)
      hits == {c \in (alo..(ahi - 1)) \X (blo..(bhi - 1)) : size(c) > 0}
      best == CHOOSE c \in hits :
                \A o \in hits :
                  \/ size(c) > size(o)
                  \/ /\ size(c) = size(o)
                     /\ \/ c[1] < o[1]
                        \/ c[1] = o[1] /\ c[2] <= o[2]
  IN  IF hits = {} THEN [i |-> alo, j |-> blo, size |-> 0]
      ELSE [i |-> best[1], j |-> best[2], size |-> size(best)]

\* the total size of SequenceMatcher.get_matching_blocks: the longest block
\* m, then the same to its left and to its right
RECURSIVE MatchCount(_, _, _, _, _, _)
RECURSIVE MatchAround(_, _, _, _, _, _, _)
MatchAround(a, b, alo, ahi, blo, bhi, m) ==
  IF m.size = 0 THEN 0
  ELSE m.size
       + (IF alo < m.i /\ blo < m.j
            THEN MatchCount(a, b, alo, m.i, blo, m.j) ELSE 0)
       + (IF m.i + m.size < ahi /\ m.j + m.size < bhi
            THEN MatchCount(a, b, m.i + m.size, ahi, m.j + m.size, bhi)
            ELSE 0)

MatchCount(a, b, alo, ahi, blo, bhi) ==
  MatchAround(a, b, alo, ahi, blo, bhi,
              FindLongestMatch(a, b, alo, ahi, blo, bhi))

\* SequenceMatcher(a, b).ratio() >= cutoff, ratio being 2 * matches / length
RatioAtLeastCutoff(a, b) ==
  \/ Len(a) + Len(b) = 0
  \/ 2 * MatchCount(a, b, 1, Len(a) + 1, 1, Len(b) + 1) * CutoffDen
       >= CutoffNum * (Len(a) + Len(b))

\* fuzzy_match_location(query_loc, [loc]) is not None
FuzzyMatchLocation(query_loc, loc) == RatioAtLeastCutoff(loc, query_loc)

\* a location of found_locs
Mentions(loc, query) == Contains(loc, query) \/ FuzzyMatchLocation(query, loc)

(***************************************************************************)
(* The query classifier.                                                   *)
(***************************************************************************)
\* the length of the run of characters of class cls in q from position i
RECURSIVE RunOf(_, _, _)
RunOf(q, i, cls) ==
  IF i <= Len(q) /\ q[i] \in cls THEN 1 + RunOf(q, i + 1, cls) ELSE 0

\* re.search(r"last\s+(\d+)\s+years", query) matching at position i, given
\* where the digits start (d1) and where they end (w2): the digits of the
\* group, or <<>> when there is no match there
WindowDigits(q, i, d1, w2) ==
  IF /\ OccursAt(<<"l", "a", "s", "t">>, q, i)
     /\ d1 > i + 4
     /\ w2 > d1
     /\ RunOf(q, w2, Whitespace) >= 1
     /\ OccursAt(<<"y", "e", "a", "r", "s">>, q, w2 + RunOf(q, w2, Whitespace))
    THEN SubSeq(q, d1, w2 - 1)
    ELSE <<>>

WindowFrom(q, i, d1) == WindowDigits(q, i, d1, d1 + RunOf(q, d1, Digits))

WindowMatchAt(q, i) == WindowFrom(q, i, i + 4 + RunOf(q, i + 4, Whitespace))

\* last_n: [set |-> FALSE] is None
NoWindow == [n |-> 0, set |-> FALSE]

FirstWindow(q, at) ==
  IF at = {} THEN NoWindow
  ELSE [n |-> DigitsVal(WindowMatchAt(q, CHOOSE i \in at : \A j \in at : i <= j)),
        set |-> TRUE]

\* m = re.search(...); last_n = int(m.group(1)) if m else None
LastN(q) == FirstWindow(q, {i \in 1..Len(q) : WindowMatchAt(q, i) # <<>>})

\* "if last_n:" is false for None and for 0
Truthy(last_n) == last_n.set /\ last_n.n # 0

QueryType(q) ==
  IF /\ Contains(<<"c", "o", "m", "p", "a", "r", "e">>, q)
     /\ Contains(<<"d", "e", "m", "a", "n", "d">>, q)
    THEN "demand_trends"
  ELSE IF Contains(<<"p", "r", "i", "c", "e", " ", "g", "r", "o", "w", "t", "h">>, q)
    THEN "price_growth"
  ELSE "analysis"

\* (request.data.get("area") or "").lower().strip()
NoArea == [s |-> <<>>, present |-> FALSE]
Area(s) == [s |-> s, present |-> TRUE]
NormQuery(area) == IF area.present THEN Strip(Lower(area.s)) ELSE <<>>


(***************************************************************************)
(* Datasets.  A table is a sequence of rows with the columns               *)
(* final_location, year, demand and the price columns (the columns whose   *)
(* name detect_price_cols accepts), in the order of the sheet.             *)
(***************************************************************************)
\* a year cell after the coercion to Int64: absent or an integer
YearNA == [v |-> 0, na |-> TRUE]
YearOf(n) == [v |-> n, na |-> FALSE]

\* a price cell: empty, a number, or a text
NaCell == [s |-> <<>>, k |-> "na", v |-> <<0, 1>>]
NumCell(n) == [s |-> <<>>, k |-> "num", v |-> <<n, 1>>]
StrCell(s) == [s |-> s, k |-> "str", v |-> <<0, 1>>]

\* the value None of _cached_df and of load_dataframe
NoDf == [loaded |-> FALSE, rows |-> <<>>]
Df(rows) == [loaded |-> TRUE, rows |-> rows]

\* a year cell of the sheet: "int" an integer, "na" empty, "text" not a
\* number, "frac" a number that is no integer
RawYear(k, n) == [k |-> k, v |-> n]

\* pd.to_numeric(df["year"], errors="coerce").astype("Int64") on one cell;
\* the cast raises on a number that is no integer
CoerceYear(y) ==
  CASE y.k = "int" -> [ok |-> TRUE, year |-> YearOf(y.v)]
    [] y.k = "frac" -> [ok |-> FALSE, year |-> YearNA]
    [] OTHER -> [ok |-> TRUE, year |-> YearNA]

RECURSIVE SumInts(_)
SumInts(xs) == IF xs = <<>> THEN 0 ELSE xs[1] + SumInts(Tail(xs))

\* the normalisation both load_dataframe and upload_file apply to the parsed
\* sheet: locations lower-cased and trimmed, years coerced, demand derived
\* from the sold/igr columns when the sheet has no demand column
Normalize(raw) ==
  LET row(r) ==
        [year |-> CoerceYear(r.year).year,
         final_location |-> Strip(Lower(r.final_location)),
         demand |-> IF raw.has_demand THEN r.demand ELSE SumInts(r.sold),
         prices |-> r.prices]
  IN  IF \A i \in 1..Len(raw.rows) : CoerceYear(raw.rows[i].year).ok
        THEN [ok |-> TRUE, df |-> Df([i \in 1..Len(raw.rows) |-> row(raw.rows[i])])]
        ELSE [ok |-> FALSE, df |-> NoDf]

\* pd.read_excel and the normalisation: the table, or a failure
ReadExcel(content) ==
  IF content.kind = "table" THEN Normalize(content.raw)
  ELSE [ok |-> FALSE, df |-> NoDf]

\* pd.to_numeric(x, errors="coerce") on one cell
ToNumeric(cell) ==
  CASE cell.k = "num" -> Some(cell.v)
    [] cell.k = "str" -> ParseFloat(cell.s)
    [] OTHER -> None

\* parse_price on one cell
CellPrice(cell) ==
  CASE cell.k = "num" -> Some(cell.v)
    [] cell.k = "str" -> ParsePrice(cell.s)
    [] OTHER -> None

\* df["final_location"].dropna().unique().tolist(): first occurrences
Locations(df) ==
  LET firsts == SelectSeq([i \in 1..Len(df.rows) |-> i],
                  LAMBDA i : \A j \in 1..(i - 1) :
                     df.rows[j].final_location # df.rows[i].final_location)
  IN  [k \in 1..Len(firsts) |-> df.rows[firsts[k]].final_location]

\* the number of price columns of the table
NumPriceCols(df) == IF df.rows = <<>> THEN 0 ELSE Len(df.rows[1].prices)

\* df[df["final_location"] == loc]
RowsOf(df, loc) == SelectSeq(df.rows, LAMBDA r : r.final_location = loc)

\* area.sort_values("year"): ascending, absent years last, ties in order
SortByYear(rows) ==
  LET before(i, j) ==
        \/ ~rows[i].year.na /\ rows[j].year.na
        \/ ~rows[i].year.na /\ ~rows[j].year.na /\ rows[i].year.v < rows[j].year.v
        \/ rows[i].year.na = rows[j].year.na
             /\ (rows[i].year.na \/ rows[i].year.v = rows[j].year.v)
             /\ i < j
      rank(i) == Cardinality({j \in 1..Len(rows) : before(j, i)}) + 1
  IN  [r \in 1..Len(rows) |-> rows[CHOOSE i \in 1..Len(rows) : rank(i) = r]]

\* the years of rows that are present
YearsOf(rows) == {rows[i].year.v : i \in {j \in 1..Len(rows) : ~rows[j].year.na}}

MaxOf(S) == CHOOSE x \in S : \A y \in S : y <= x

\* "if last_n: max_year = int(area["year"].max());
\*              area = area[area["year"] > max_year - last_n]":
\* int() raises on the absent maximum of a column without any year
ApplyWindow(rows, last_n) ==
  IF ~Truthy(last_n) THEN [ok |-> TRUE, rows |-> rows]
  ELSE IF YearsOf(rows) = {} THEN [ok |-> FALSE, rows |-> <<>>]
  ELSE [ok |-> TRUE,
        rows |-> SelectSeq(rows, LAMBDA r :
                   ~r.year.na /\ r.year.v > MaxOf(YearsOf(rows)) - last_n.n)]

(***************************************************************************)
(* The summary generator.                                                  *)
(***************************************************************************)
\* the prices of a sequence of cells: area[col].dropna().map(parse_price)
\* .dropna().tolist()
PricesOf(cells) ==
  LET kept == SelectSeq(cells, LAMBDA x : x.k # "na" /\ CellPrice(x).ok)
  IN  [i \in 1..Len(kept) |-> CellPrice(kept[i]).v]

\* "for col in price_cols: avg_price_vals.extend(prices)" from column c on
RECURSIVE PriceVals(_, _, _)
PriceVals(rows, c, ncols) ==
  IF c > ncols THEN <<>>
  ELSE PricesOf([i \in 1..Len(rows) |-> rows[i].prices[c]])
         \o PriceVals(rows, c + 1, ncols)

DemandTrend(demand_vals) ==
  IF Len(demand_vals) > 1
    THEN IF demand_vals[Len(demand_vals)] > demand_vals[1] THEN "rising"
         ELSE IF demand_vals[Len(demand_vals)] < demand_vals[1] THEN "falling"
         ELSE "stable"
  ELSE IF Len(demand_vals) = 1 THEN "steady"
  ELSE ""

\* ((last - first) / first) * 100, formatted with one decimal
PctChange(first, last) ==
  RRound(RMul(RDiv(RSub(last, first), first), RInt(100)), 1)

NoText ==
  [rows |-> <<>>, name |-> <<>>, has_price |-> FALSE,
   pct |-> <<0, 1>>, demand_trend |-> "", past |-> NoWindow]

\* the text generate_mock_summary returns, kept as the values it is
\* formatted from: the title-cased name, the percentage or "no price data",
\* the demand trend, and last_n or "all"; rows records the rows it was
\* computed from.  The division raises when the first price is 0.
SummaryText(area, avg_price_vals, location_name, last_n) ==
  IF avg_price_vals # <<>> /\ avg_price_vals[1][1] = 0
    THEN [ok |-> FALSE, err |-> "ZeroDivisionError", text |-> NoText]
  ELSE [ok |-> TRUE, err |-> "",
        text |-> [rows |-> area,
                  name |-> Title(location_name),
                  has_price |-> avg_price_vals # <<>>,
                  pct |-> IF avg_price_vals # <<>>
                            THEN PctChange(avg_price_vals[1],
                                           avg_price_vals[Len(avg_price_vals)])
                            ELSE <<0, 1>>,
                  demand_trend |-> DemandTrend([i \in 1..Len(area) |-> area[i].demand]),
                  past |-> IF Truthy(last_n) THEN last_n ELSE NoWindow]]

\* generate_mock_summary after its own sort and window w
SummaryOfWindow(w, ncols, location_name, last_n) ==
  IF ~w.ok THEN [ok |-> FALSE, err |-> "TypeError", text |-> NoText]
  ELSE SummaryText(w.rows, PriceVals(w.rows, 1, ncols), location_name, last_n)

\* generate_mock_summary(area, price_cols, location_name, last_n); err names
\* the exception when the call raises
GenerateMockSummary(area, ncols, location_name, last_n) ==
  SummaryOfWindow(ApplyWindow(SortByYear(area), last_n), ncols,
                  location_name, last_n)

(***************************************************************************)
(* The aggregator.                                                         *)
(***************************************************************************)
\* the values of a chart record
IntVal(n) == [k |-> "int", v |-> <<n, 1>>]
FloatVal(x) == [k |-> "float", v |-> x]
NaNVal == [k |-> "nan", v |-> <<0, 1>>]

YearKey == <<"y", "e", "a", "r">>
DemandKey(loc) == Title(loc)
PriceKey(loc) == Title(loc) \o <<"_", "p", "r", "i", "c", "e">>

\* d[key] = val on a dict
Put(d, key, val) ==
  [k \in DOMAIN d \cup {key} |-> IF k = key THEN val ELSE d[k]]

WantsDemand(query_type) == query_type \in {"analysis", "demand_trends"}
WantsPrice(query_type) == query_type \in {"analysis", "price_growth"}

\* the numbers among a sequence of cells
NumericCells(cells) ==
  LET kept == SelectSeq(cells, LAMBDA x : ToNumeric(x).ok)
  IN  [i \in 1..Len(kept) |-> ToNumeric(kept[i]).v]

\* the numeric cells of price column c of a group
NumericCol(group, c) == NumericCells([i \in 1..Len(group) |-> group[i].prices[c]])

\* the numeric cells of one row over the price columns
NumericRow(row) == NumericCells(row.prices)

\* the mean of the means of the sequences that are not empty: None when
\* there is none
MeanOfFilled(filled) ==
  IF filled = <<>> THEN None
  ELSE Some(RMean([i \in 1..Len(filled) |-> RMean(filled[i])]))

MeanOfMeans(seqs) == MeanOfFilled(SelectSeq(seqs, LAMBDA xs : xs # <<>>))

\* the mean over the rows of each row's mean across the price columns
MeanOfRowMeans(group, ncols) ==
  MeanOfMeans([i \in 1..Len(group) |-> NumericRow(group[i])])

\* group[price_cols].apply(pd.to_numeric, errors="coerce").mean().mean():
\* DataFrame.mean() is the mean of each column, Series.mean() the mean of
\* those; absent cells and columns without a number are skipped
AvgPrice(group, ncols) ==
  MeanOfMeans([c \in 1..ncols |-> NumericCol(group, c)])

\* round(avg_price, 2)
RoundedPrice(avg) == IF avg.ok THEN FloatVal(RRound(avg.v, 2)) ELSE NaNVal

\* "year_map[year] = {"year": year}" when the year is new, then the demand
\* and price entries of loc the intent asks for
WithYear(old, year) ==
  IF YearKey \in DOMAIN old THEN old ELSE Put(old, YearKey, IntVal(year))

WithDemand(d, group, loc, query_type) ==
  IF WantsDemand(query_type)
    THEN Put(d, DemandKey(loc),
             IntVal(SumInts([i \in 1..Len(group) |-> group[i].demand])))
    ELSE d

\* the price entry written whatever the intent
WithPriceAlways(d, group, ncols, loc, query_type) ==
  Put(d, PriceKey(loc), RoundedPrice(AvgPrice(group, ncols)))

\* "if query_type in ["analysis", "price_growth"]": the price entry of loc
WithPrice(d, group, ncols, loc, query_type) ==
  IF WantsPrice(query_type)
    THEN Put(d, PriceKey(loc), RoundedPrice(AvgPrice(group, ncols)))
    ELSE d

\* the record of year_map for `year` after the rows of loc in that year
YearRecord(old, group, ncols, loc, year, query_type) ==
  WithPrice(WithDemand(WithYear(old, year), group, loc, query_type),
            group, ncols, loc, query_type)

EmptyDict == [k \in {} |-> NaNVal]

\* area[cols].to_dict(orient="records") for one row
TableRecord(r, query_type) ==
  [year |-> r.year,
   final_location |-> r.final_location,
   demand |-> IF WantsDemand(query_type) THEN r.demand ELSE 0,
   has_demand |-> WantsDemand(query_type),
   prices |-> IF WantsPrice(query_type) THEN r.prices ELSE <<>>,
   has_prices |-> WantsPrice(query_type)]

NoAcc ==
  [ok |-> TRUE, err |-> "", summaries |-> <<>>,
   year_map |-> [y \in {} |-> <<>>], table_data |-> <<>>]

\* the rest of one turn of "for loc in found_locs" once the summary text is
\* there: the summary entry, the year_map records, the table rows
MergeLoc(acc, area, text, ncols, loc, query_type) ==
  IF ~text.ok THEN [acc EXCEPT !.ok = FALSE, !.err = text.err]
  ELSE [ok |-> TRUE, err |-> "",
        summaries |-> Append(acc.summaries,
                        [location |-> Title(loc), mockSummary |-> text.text]),
        year_map |->
          [y \in DOMAIN acc.year_map \cup YearsOf(area) |->
             IF y \in YearsOf(area)
               THEN YearRecord(IF y \in DOMAIN acc.year_map
                                 THEN acc.year_map[y] ELSE EmptyDict,
                               SelectSeq(area, LAMBDA r : ~r.year.na /\ r.year.v = y),
                               ncols, loc, y, query_type)
               ELSE acc.year_map[y]],
        table_data |-> acc.table_data
           \o [i \in 1..Len(area) |-> TableRecord(area[i], query_type)]]

\* one turn on the sorted rows of loc
ProcessArea(acc, area, ncols, loc, last_n, query_type) ==
  MergeLoc(acc, area, GenerateMockSummary(area, ncols, loc, last_n),
           ncols, loc, query_type)

\* one turn after the window w of analyze
ProcessWindow(acc, w, ncols, loc, last_n, query_type) ==
  IF ~w.ok THEN [acc EXCEPT !.ok = FALSE, !.err = "TypeError"]
  ELSE ProcessArea(acc, SortByYear(w.rows), ncols, loc, last_n, query_type)

\* one turn of "for loc in found_locs" on the accumulated summaries,
\* year_map and table_data; an exception ends the request
ProcessLoc(acc, df, loc, last_n, query_type) ==
  ProcessWindow(acc, ApplyWindow(RowsOf(df, loc), last_n), NumPriceCols(df),
                loc, last_n, query_type)

RECURSIVE ProcessLocs(_, _, _, _, _)
ProcessLocs(acc, df, locs, last_n, query_type) ==
  IF locs = <<>> \/ ~acc.ok THEN acc
  ELSE ProcessLocs(ProcessLoc(acc, df, locs[1], last_n, query_type),
                   df, Tail(locs), last_n, query_type)

\* list(sorted(year_map.values(), key=lambda x: x["year"]))
RECURSIVE ChartData(_)
ChartData(year_map) ==
  IF DOMAIN year_map = {} THEN <<>>
  ELSE LET y == CHOOSE a \in DOMAIN year_map : \A b \in DOMAIN year_map : a <= b
       IN  <<year_map[y]>>
             \o ChartData([z \in DOMAIN year_map \ {y} |-> year_map[z]])

\* a response: op the handler, status the HTTP status, kind the message (or
\* the exception that escaped the handler), area the query as sent, used
\* the table the handler worked on
Response(op, status, kind, area, used) ==
  [last_n |-> NoWindow, area |-> area, kind |-> kind, query_type |-> "",
   op |-> op, status |-> status, used |-> used, found_locs |-> <<>>,
   summary |-> <<>>, chartData |-> <<>>, tableData |-> <<>>]

NoResponse == Response("none", 0, "", NoArea, NoDf)

\* analyze with the query validated before the dataset is looked at
AnalyzeQueryFirst(df, area) ==
  IF NormQuery(area) = <<>>
    THEN Response("analyze", 400, "missing_query", area, df)
    ELSE Response("analyze", 500, "no_data", area, df)

\* the first two checks of analyze: the dataset, then the query
AnalyzeGuards(df, area) ==
  IF ~df.loaded
    THEN Response("analyze", 500, "no_data", area, df)
    ELSE Response("analyze", 400, "missing_query", area, df)

\* the response once the loop over found_locs has ended
AnalyzeResponse(df, area, last_n, found_locs, query_type, acc) ==
  IF ~acc.ok
    THEN [Response("analyze", 500, acc.err, area, df) EXCEPT
            !.query_type = query_type, !.last_n = last_n,
            !.found_locs = found_locs]
    ELSE [Response("analyze", 200, "ok", area, df) EXCEPT
            !.query_type = query_type, !.last_n = last_n,
            !.found_locs = found_locs,
            !.summary = acc.summaries,
            !.chartData = ChartData(acc.year_map),
            !.tableData = acc.table_data]

\* analyze once the window, the locations and the intent are resolved
AnalyzeFound(df, area, last_n, found_locs, query_type) ==
  IF found_locs = <<>>
    THEN Response("analyze", 400, "no_match", area, df)
    ELSE AnalyzeResponse(df, area, last_n, found_locs, query_type,
           ProcessLocs(NoAcc, df, found_locs, last_n, query_type))

\* analyze on the table df and the normalised query
AnalyzeQuery(df, area, query) ==
  IF ~df.loaded \/ query = <<>> THEN AnalyzeGuards(df, area)
  ELSE AnalyzeFound(df, area, LastN(query),
         SelectSeq(Locations(df), LAMBDA loc : Mentions(loc, query)),
         QueryType(query))

\* analyze on the table load_dataframe returned
Analyze(df, area) == AnalyzeQuery(df, area, NormQuery(area))

(***************************************************************************)
(* The dataset loader and the upload handler.                              *)
(***************************************************************************)
\* the lru_cache(maxsize=1) of load_dataframe: empty, or the one result
NoMemo == [set |-> FALSE, val |-> NoDf]
Memoized(df) == [set |-> TRUE, val |-> df]

\* the default file real_estate.xlsx, or the body of an uploaded file:
\* "absent", "corrupt" (read_excel raises) or "table"
EmptySheet == [rows |-> <<>>, has_demand |-> TRUE]
AbsentFile == [raw |-> EmptySheet, kind |-> "absent"]
CorruptFile == [raw |-> EmptySheet, kind |-> "corrupt"]
Sheet(raw) == [raw |-> raw, kind |-> "table"]

\* the try block of load_dataframe on what read_excel and the normalisation
\* gave: the table is cached and returned, a failure returns None
LoadFile(cached, r) ==
  IF r.ok THEN [df |-> r.df, cached |-> r.df]
  ELSE [df |-> NoDf, cached |-> cached]

\* the body of load_dataframe: the cached table when there is one, else the
\* default file when it exists and loads; cached is _cached_df afterwards
LoadBody(cached, f) ==
  IF cached.loaded THEN [df |-> cached, cached |-> cached]
  ELSE IF f.kind = "absent" THEN [df |-> NoDf, cached |-> cached]
  ELSE LoadFile(cached, ReadExcel(f))

\* the lru_cache keeping the result r of the body
MemoizeResult(r) == [df |-> r.df, cached |-> r.cached, memo |-> Memoized(r.df)]

\* a cache keeping a table but never None
MemoizeLoaded(m, r) ==
  [df |-> r.df, cached |-> r.cached,
   memo |-> IF r.df.loaded THEN Memoized(r.df) ELSE m]

\* load_dataframe memoizing only a table, never None
LoadDataframeSkipNone(cached, m, f) ==
  IF m.set THEN [df |-> m.val, cached |-> cached, memo |-> m]
  ELSE MemoizeLoaded(m, LoadBody(cached, f))

\* load_dataframe() through its lru_cache: the memoized result when there is
\* one, else the body's result, which is memoized (None included)
LoadDataframe(cached, m, f) ==
  IF m.set THEN [df |-> m.val, cached |-> cached, memo |-> m]
  ELSE MemoizeResult(LoadBody(cached, f))

\* request.FILES.get("file"): no file, or a name and a body
NoUpload == [present |-> FALSE, content |-> AbsentFile, name |-> <<>>]
Attached(name, content) == [present |-> TRUE, content |-> content, name |-> name]

HasExcelSuffix(name) ==
  \/ EndsWith(name, <<".", "x", "l", "s", "x">>)
  \/ EndsWith(name, <<".", "x", "l", "s">>)

\* the checks of upload_file before the file is parsed: the response that
\* rejects the request, or NoResponse
UploadRejection(f) ==
  IF ~f.present THEN Response("upload", 400, "no_file", NoArea, NoDf)
  ELSE IF ~HasExcelSuffix(f.name)
    THEN Response("upload", 400, "invalid_format", NoArea, NoDf)
  ELSE NoResponse

UploadFailed == Response("upload", 500, "failed", NoArea, NoDf)
Uploaded(df) == Response("upload", 200, "uploaded", NoArea, df)

\* the try block without the cache_clear()
UploadParsedKeepMemo(cached, m, r) ==
  IF r.ok THEN [cached |-> r.df, memo |-> m, resp |-> Uploaded(r.df)]
  ELSE [cached |-> cached, memo |-> m, resp |-> UploadFailed]

\* the try block with the memo cleared before the file is parsed
UploadParsedClearFirst(cached, m, r) ==
  IF r.ok THEN [cached |-> r.df, memo |-> NoMemo, resp |-> Uploaded(r.df)]
  ELSE [cached |-> cached, memo |-> NoMemo, resp |-> UploadFailed]

\* the try block of upload_file on what read_excel and the normalisation
\* gave: "_cached_df = df; load_dataframe.cache_clear()", or the failure
UploadParsed(cached, m, r) ==
  IF r.ok THEN [cached |-> r.df, memo |-> NoMemo, resp |-> Uploaded(r.df)]
  ELSE [cached |-> cached, memo |-> m, resp |-> UploadFailed]

\* upload_file: _cached_df, the memo and the response afterwards
UploadFile(cached, m, f) ==
  IF UploadRejection(f) # NoResponse
    THEN [cached |-> cached, memo |-> m, resp |-> UploadRejection(f)]
    ELSE UploadParsed(cached, m, ReadExcel(f.content))

(***************************************************************************)
(* Sample inputs.                                                          *)
(***************************************************************************)
RawRow(loc, year, demand, sold, prices) ==
  [year |-> year, final_location |-> loc, demand |-> demand, sold |-> sold,
   prices |-> prices]

\* the default file's sheet: a demand column, one price column
DefaultSheet ==
  [rows |-> << RawRow(<<" ", "P", "u", "n", "e", " ">>, RawYear("int", 2020), 5, <<>>, <<NumCell(100)>>),
               RawRow(<<"p", "u", "n", "e">>, RawYear("int", 2021), 7, <<>>, <<NumCell(110)>>) >>,
   has_demand |-> TRUE]

\* an uploaded sheet without a demand column, with a year that is no number
SheetA ==
  [rows |-> << RawRow(<<"w", "a", "k", "a", "d">>, RawYear("int", 2021), 0, <<2, 3>>, <<NumCell(50)>>),
               RawRow(<<"W", "A", "K", "A", "D">>, RawYear("text", 0), 0, <<1, 1>>, <<StrCell(<<"4", "0", "-", "6", "0">>)>>),
               RawRow(<<"p", "u", "n", "e">>, RawYear("int", 2022), 0, <<4, 4>>, <<NaCell>>) >>,
   has_demand |-> FALSE]

\* a second uploaded sheet
SheetB ==
  [rows |-> << RawRow(<<"p", "u", "n", "e">>, RawYear("int", 2019), 9, <<>>, <<NumCell(80)>>) >>,
   has_demand |-> TRUE]

\* a sheet whose year column holds a number that is no integer
SheetFrac ==
  [rows |-> << RawRow(<<"p", "u", "n", "e">>, RawYear("frac", 0), 1, <<>>, <<NumCell(80)>>) >>,
   has_demand |-> TRUE]

Uploads ==
  { NoUpload,
    Attached(<<"a", ".", "c", "s", "v">>, Sheet(SheetA)),
    Attached(<<"a", ".", "X", "L", "S", "X">>, Sheet(SheetA)),
    Attached(<<"a", ".", "x", "l", "s", "x">>, CorruptFile),
    Attached(<<"b", ".", "x", "l", "s">>, Sheet(SheetFrac)),
    Attached(<<"a", ".", "x", "l", "s", "x">>, Sheet(SheetA)),
    Attached(<<"b", ".", "x", "l", "s">>, Sheet(SheetB)) }

FileStates == {AbsentFile, CorruptFile, Sheet(SheetFrac), Sheet(DefaultSheet)}

Areas ==
  { NoArea,
    Area(<<>>),
    Area(<<" ", " ">>),
    Area(<<"P", "u", "n", "e">>),
    Area(<<"c", "o", "m", "p", "a", "r", "e", " ", "d", "e", "m", "a", "n", "d", " ", "w", "a", "k", "a", "d", " ", "p", "u", "n", "e", " ", "l", "a", "s", "t", " ", "1", " ", "y", "e", "a", "r", "s">>),
    Area(<<"x", "y", "z">>) }


(***************************************************************************)
(* The state.                                                              *)
(***************************************************************************)
VARIABLES
  cached_df,   \* the module global _cached_df: NoDf (None) or a table
  memo,        \* the lru_cache of load_dataframe
  file,        \* the default file real_estate.xlsx on disk
  resp,        \* the response of the last request handled
  hist,        \* history: the last successful upload, the first load
  workers,     \* the request threads of the concurrent specification
  price_arg,   \* the argument of parse_price
  price_ret    \* its return value, once it has returned

vars == <<cached_df, memo, file, resp, hist, workers, price_arg, price_ret>>

\* uploaded: an upload has succeeded, last its table, memo_at_upload the
\* memo it found; first_load: what the first call of load_dataframe
\* returned; upload_failed: an upload was rejected or failed since;
\* file_ok_at_call: the default file was loadable when analyze was last
\* called; calls: the requests started by the threads
NoHist ==
  [last |-> NoDf, uploaded |-> FALSE, memo_at_upload |-> NoMemo,
   first_load |-> "none", upload_failed |-> FALSE, file_ok_at_call |-> FALSE,
   calls |-> 0]

NoWorkers == <<>>
NoPrice == [r |-> None, done |-> FALSE]

\* the process after start-up: nothing cached, nothing memoized
Init ==
  /\ cached_df = NoDf
  /\ memo = NoMemo
  /\ file \in FileStates
  /\ resp = NoResponse
  /\ hist = NoHist
  /\ workers = NoWorkers
  /\ price_arg = NaCell
  /\ price_ret = NoPrice

\* a POST to api/upload/ handled to completion
Upload(f) ==
  \E r \in {UploadFile(cached_df, memo, f)} :
    /\ cached_df' = r.cached
    /\ memo' = r.memo
    /\ resp' = r.resp
    /\ hist' = IF r.resp.status = 200
                 THEN [hist EXCEPT !.uploaded = TRUE, !.last = r.cached,
                                   !.memo_at_upload = memo]
                 ELSE [hist EXCEPT !.upload_failed = TRUE]
    /\ UNCHANGED <<file, workers, price_arg, price_ret>>

\* a POST to api/analyze/ handled to completion
AnalyzeReq(area) ==
  \E l \in {LoadDataframe(cached_df, memo, file)} :
    /\ cached_df' = l.cached
    /\ memo' = l.memo
    /\ resp' = Analyze(l.df, area)
    /\ hist' = IF hist.first_load = "none"
                 THEN [hist EXCEPT
                         !.first_load = IF l.df.loaded THEN "ok" ELSE "failed",
                         !.upload_failed = FALSE,
                         !.file_ok_at_call = ReadExcel(file).ok]
                 ELSE [hist EXCEPT !.file_ok_at_call = ReadExcel(file).ok]
    /\ UNCHANGED <<file, workers, price_arg, price_ret>>

\* the default file is written, replaced or removed on disk
SetFile(f) ==
  /\ f # file
  /\ file' = f
  /\ UNCHANGED <<cached_df, memo, resp, hist, workers, price_arg, price_ret>>

Next ==
  \/ \E f \in Uploads : Upload(f)
  \/ \E area \in Areas : AnalyzeReq(area)
  \/ \E f \in FileStates : SetFile(f)

Spec == Init /\ [][Next]_vars


(***************************************************************************)
(* Properties of the cache, checked under Spec.                            *)
(***************************************************************************)
\* C1: in a sequential run, once an upload has succeeded, every analyze call
\* handled before the next successful upload works on that upload's table
\* and returns what analyze computes from it, whatever was memoized before.
C1_AnalyzeReadsLastUpload ==
  (resp.op = "analyze" /\ hist.uploaded) =>
    /\ resp.used = hist.last
    /\ resp = Analyze(hist.last, resp.area)

\* an analyze call answered from an uploaded table that replaced a
\* different, memoized table
C1_Witness ==
  /\ resp.op = "analyze"
  /\ resp.status = 200
  /\ hist.uploaded
  /\ hist.memo_at_upload.set
  /\ hist.memo_at_upload.val.loaded
  /\ hist.memo_at_upload.val # hist.last
  /\ resp.used = hist.last

\* C2: an upload that is rejected or fails leaves _cached_df and the memo as
\* they were, so every following analyze call returns what it would have
\* returned without the upload.
C2_FailedUploadKeepsState ==
  [][(resp'.op = "upload" /\ resp'.status # 200) =>
       /\ cached_df' = cached_df
       /\ memo' = memo
       /\ \A a \in Areas :
            Analyze(LoadDataframe(cached_df', memo', file').df, a)
              = Analyze(LoadDataframe(cached_df, memo, file').df, a)]_vars

\* an upload has failed while a table was cached and memoized
C2_Witness ==
  /\ resp.op = "upload"
  /\ resp.status = 500
  /\ cached_df.loaded
  /\ memo.set
  /\ memo.val = cached_df

C8_EmptyUntilUpload ==
  (hist.first_load = "failed" /\ ~hist.uploaded) =>
    /\ ~cached_df.loaded
    /\ resp.op = "analyze" => (resp.status = 500 /\ resp.kind = "no_data")

\* "no data available" although the default file was loadable at the call,
\* after a failed first load and a rejected or failed upload
C8_Witness ==
  /\ hist.first_load = "failed"
  /\ ~hist.uploaded
  /\ hist.upload_failed
  /\ hist.file_ok_at_call
  /\ resp.op = "analyze"
  /\ resp.kind = "no_data"


(***************************************************************************)
(* parse_price on its own: SpecPrice calls it once on every argument of    *)
(* PriceArgs.                                                              *)
(***************************************************************************)
RECURSIVE StringsUpTo(_)
StringsUpTo(n) ==
  IF n = 0 THEN {<<>>}
  ELSE StringsUpTo(n - 1)
         \cup {Append(x, c) : x \in StringsUpTo(n - 1), 
                c \in {"1", "5", ".", "-", ",", "R", " "}}

PriceSamples ==
  { <<"5", "-">>, <<"1", ",", "2", "0", "0", "-", "1", ",", "5", "0", "0">>, <<"R", "s", "-", "1", "2", "0", "0">>, <<"1", "2", "0", "0", "-", "1", "5", "0", "0">>, <<"R", "s", "1", ",", "2", "0", "0", "/", "s", "q", "f", "t">>, <<"a", "b", "c">> }

PriceArgs ==
  {NaCell, NumCell(1200)}
    \cup {StrCell(x) : x \in StringsUpTo(MaxLen) \cup PriceSamples}

InitPrice ==
  /\ cached_df = NoDf
  /\ memo = NoMemo
  /\ file = AbsentFile
  /\ resp = NoResponse
  /\ hist = NoHist
  /\ workers = NoWorkers
  /\ price_arg \in PriceArgs
  /\ price_ret = NoPrice

\* parse_price(price_arg) returns
CallParsePrice ==
  /\ ~price_ret.done
  /\ price_ret' = [r |-> CellPrice(price_arg), done |-> TRUE]
  /\ UNCHANGED <<cached_df, memo, file, resp, hist, workers, price_arg>>

NextPrice == CallParsePrice

SpecPrice == InitPrice /\ [][NextPrice]_vars

\* a text that is no number, holds a hyphen, and has a part that is no number
RangeFailure(cell) ==
  /\ cell.k = "str"
  /\ ~ParseFloat(cell.s).ok
  /\ Contains(<<"-">>, cell.s)
  /\ \E i \in 1..Len(Split(cell.s, "-")) : ~ParseFloat(Split(cell.s, "-")[i]).ok

\* C6 as claimed: on a text with a hyphen whose parts do not all parse,
\* parse_price falls through to the stripping step and returns the number
\* left after deleting every character that is no digit and no decimal
\* point, absent only when that does not parse.
C6_RangeFailureFallsThrough ==
  (price_ret.done /\ RangeFailure(price_arg)) =>
    price_ret.r = ParseFloat(StripNonNumeric(price_arg.s))

\* C6 as amended: on such a text parse_price returns absent and never
\* reaches the stripping step; the stripping step decides only the texts
\* that are no number and hold no hyphen.
C6_RangeFailureIsAbsent ==
  price_ret.done =>
    /\ RangeFailure(price_arg) => price_ret.r = None
    /\ (/\ price_arg.k = "str"
        /\ ~ParseFloat(price_arg.s).ok
        /\ ~Contains(<<"-">>, price_arg.s))
         => price_ret.r = ParseFloat(StripNonNumeric(price_arg.s))

\* parse_price has returned absent for "Rs-1200", whose stripped form is a
\* number
C6_Witness ==
  /\ price_ret.done
  /\ price_arg = StrCell(<<"R", "s", "-", "1", "2", "0", "0">>)
  /\ RangeFailure(price_arg)
  /\ ParseFloat(StripNonNumeric(price_arg.s)).ok
  /\ price_ret.r = None

(***************************************************************************)
(* analyze on its own: SpecAgg starts with any table of AggTables cached   *)
(* (as an upload leaves it) and handles analyze requests.                  *)
(***************************************************************************)
AggDemand(year) == IF year.na THEN 1 ELSE year.v - 2018

AggRow(loc, year) ==
  [year |-> year, final_location |-> loc, demand |-> AggDemand(year),
   prices |-> <<NumCell(100 * AggDemand(year)), NaCell>>]

AggRows ==
  {AggRow(loc, year) :
     loc \in {<<"p", "u", "n", "e">>, <<"w", "a", "k", "a", "d">>},
     year \in {YearNA, YearOf(2020), YearOf(2021), YearOf(2022)}}

RECURSIVE SeqsUpTo(_, _)
SeqsUpTo(S, n) ==
  IF n = 0 THEN {<<>>}
  ELSE SeqsUpTo(S, n - 1)
         \cup {Append(x, r) : x \in SeqsUpTo(S, n - 1), r \in S}

AggTables == {Df(rows) : rows \in SeqsUpTo(AggRows, MaxRows) \ {<<>>}}

AggAreas ==
  { Area(<<"P", "u", "n", "e", " ", "W", "a", "k", "a", "d">>),
    Area(<<"c", "o", "m", "p", "a", "r", "e", " ", "d", "e", "m", "a", "n", "d", " ", "p", "u", "n", "e", " ", "w", "a", "k", "a", "d", " ", "l", "a", "s", "t", " ", "2", " ", "y", "e", "a", "r", "s">>),
    Area(<<"p", "r", "i", "c", "e", " ", "g", "r", "o", "w", "t", "h", " ", "i", "n", " ", "p", "u", "n", "e", " ", "l", "a", "s", "t", " ", "1", " ", "y", "e", "a", "r", "s">>),
    Area(<<"w", "a", "k", "a", "d", " ", "l", "a", "s", "t", " ", "0", " ", "y", "e", "a", "r", "s">>),
    Area(<<"w", "a", "k", "d">>) }

InitAgg ==
  /\ cached_df \in AggTables
  /\ memo = NoMemo
  /\ file = AbsentFile
  /\ resp = NoResponse
  /\ hist = [NoHist EXCEPT !.uploaded = TRUE, !.last = cached_df]
  /\ workers = NoWorkers
  /\ price_arg = NaCell
  /\ price_ret = NoPrice

NextAgg == \E area \in AggAreas : AnalyzeReq(area)

SpecAgg == InitAgg /\ [][NextAgg]_vars


\* the years of the chart records, in the order of chartData
ChartYears(r) == [i \in 1..Len(r.chartData) |-> r.chartData[i][YearKey].v[1]]

\* the rows of tableData of location loc: its rows after the window
TableRowsOf(r, loc) == SelectSeq(r.tableData, LAMBDA x : x.final_location = loc)

Elements(xs) == {xs[i] : i \in 1..Len(xs)}

\* the keys the claim gives the chart record of year y
ExpectedKeys(r, y) ==
  {YearKey}
    \cup {DemandKey(loc) : loc \in {l \in Elements(r.found_locs) :
            /\ y \in YearsOf(TableRowsOf(r, l))
            /\ r.query_type \in {"analysis", "demand_trends"}}}
    \cup {PriceKey(loc) : loc \in {l \in Elements(r.found_locs) :
            /\ y \in YearsOf(TableRowsOf(r, l))
            /\ r.query_type \in {"analysis", "price_growth"}}}

\* C4: in a successful result chartData holds one record per distinct present
\* year of the windowed rows of the matched locations, in strictly ascending
\* order; the record of year y has, besides "year", the key <Location> of
\* every matched location with a row in y when the intent asks for demand
\* and the key <Location>_price of every such location when it asks for
\* price, and no other key: no zero-fill, no price key for demand_trends.
C4_ChartKeysPerYear ==
  resp.status = 200 =>
    /\ Elements(ChartYears(resp)) = YearsOf(resp.tableData)
    /\ \A i, j \in 1..Len(resp.chartData) :
         i < j => ChartYears(resp)[i] < ChartYears(resp)[j]
    /\ \A i \in 1..Len(resp.chartData) :
         DOMAIN resp.chartData[i] = ExpectedKeys(resp, ChartYears(resp)[i])
    /\ resp.query_type = "demand_trends" =>
         \A i \in 1..Len(resp.chartData) :
           \A loc \in Elements(resp.found_locs) :
             PriceKey(loc) \notin DOMAIN resp.chartData[i]

\* two matched locations, a year only one of them has rows in (its record
\* lacks the other's keys) and a year both have rows in
C4_Witness ==
  /\ resp.status = 200
  /\ Len(resp.found_locs) = 2
  /\ \E i \in 1..Len(resp.chartData) :
       /\ DemandKey(resp.found_locs[1]) \in DOMAIN resp.chartData[i]
       /\ DemandKey(resp.found_locs[2]) \notin DOMAIN resp.chartData[i]
  /\ \E i \in 1..Len(resp.chartData) :
       /\ DemandKey(resp.found_locs[1]) \in DOMAIN resp.chartData[i]
       /\ DemandKey(resp.found_locs[2]) \in DOMAIN resp.chartData[i]

\* whether every row of rows has a year above bound
AllAbove(rows, bound) ==
  \A i \in 1..Len(rows) : ~rows[i].year.na /\ rows[i].year.v > bound

\* C5: for a query with "last N years", N = 0 included, every row that
\* contributes to a matched location's summary, to chartData and to
\* tableData has a year above that location's maximum year minus N.
C5_WindowIsN ==
  (resp.status = 200 /\ resp.last_n.set) =>
    \A k \in 1..Len(resp.found_locs) :
      IF YearsOf(RowsOf(resp.used, resp.found_locs[k])) = {}
        THEN /\ TableRowsOf(resp, resp.found_locs[k]) = <<>>
             /\ resp.summary[k].mockSummary.rows = <<>>
        ELSE /\ AllAbove(TableRowsOf(resp, resp.found_locs[k]),
                   MaxOf(YearsOf(RowsOf(resp.used, resp.found_locs[k])))
                     - resp.last_n.n)
             /\ AllAbove(resp.summary[k].mockSummary.rows,
                   MaxOf(YearsOf(RowsOf(resp.used, resp.found_locs[k])))
                     - resp.last_n.n)
             /\ \A i \in 1..Len(resp.chartData) :
                  (DOMAIN resp.chartData[i]
                     \cap {DemandKey(resp.found_locs[k]),
                           PriceKey(resp.found_locs[k])} # {})
                    => ChartYears(resp)[i]
                         > MaxOf(YearsOf(RowsOf(resp.used, resp.found_locs[k])))
                             - resp.last_n.n

\* C7: absent years never make an analysis fail: a query that matches a
\* location of the cached table gets the result payload.
C7_AbsentYearsNeverRaise ==
  (resp.op = "analyze" /\ resp.found_locs # <<>>) =>
    (resp.status = 200 /\ resp.kind = "ok")

(***************************************************************************)
(* The price average: SpecAvg starts with any table of AvgTables cached    *)
(* (one location, two price columns) and handles analyze requests.         *)
(***************************************************************************)
AvgRows ==
  {[year |-> y, final_location |-> <<"p", "u", "n", "e">>, demand |-> 1,
    prices |-> <<a, b>>] :
     y \in {YearOf(2020), YearOf(2021)},
     a \in {NaCell, NumCell(10), StrCell(<<"1", "-", "3">>)},
     b \in {NaCell, NumCell(10), StrCell(<<"4", "0">>)}}

AvgTables == {Df(rows) : rows \in SeqsUpTo(AvgRows, MaxPriceRows) \ {<<>>}}

InitAvg ==
  /\ cached_df \in AvgTables
  /\ memo = NoMemo
  /\ file = AbsentFile
  /\ resp = NoResponse
  /\ hist = [NoHist EXCEPT !.uploaded = TRUE, !.last = cached_df]
  /\ workers = NoWorkers
  /\ price_arg = NaCell
  /\ price_ret = NoPrice

NextAvg ==
  \E area \in {Area(<<"p", "u", "n", "e">>),
               Area(<<"p", "r", "i", "c", "e", " ", "g", "r", "o", "w", "t", "h", " ", "p", "u", "n", "e">>)} :
    AnalyzeReq(area)

SpecAvg == InitAvg /\ [][NextAvg]_vars

\* the rows of tableData of location loc in year y
GroupOf(r, loc, y) ==
  SelectSeq(r.tableData,
            LAMBDA x : x.final_location = loc /\ ~x.year.na /\ x.year.v = y)

RECURSIVE RSumOver(_, _, _)
RSumOver(group, cols, c) ==
  IF c = 0 THEN RInt(0)
  ELSE RAdd(IF c \in cols THEN RMean(NumericCol(group, c)) ELSE RInt(0),
            RSumOver(group, cols, c - 1))

\* the mean, over the price columns with a numeric cell, of the column's
\* mean over the rows of the group, to two decimals
ColumnMeansValue(group, ncols) ==
  LET cols == {c \in 1..ncols : NumericCol(group, c) # <<>>}
  IN  IF cols = {} THEN NaNVal
      ELSE FloatVal(RRound(RDiv(RSumOver(group, cols, ncols),
                                RInt(Cardinality(cols))), 2))

\* whether every price entry of chartData is what value(group, ncols) gives
\* for the rows of its location and year
PricesAre(r, value(_, _)) ==
  \A i \in 1..Len(r.chartData) :
    \A loc \in Elements(r.found_locs) :
      PriceKey(loc) \in DOMAIN r.chartData[i] =>
        r.chartData[i][PriceKey(loc)]
          = value(GroupOf(r, loc, ChartYears(r)[i]), NumPriceCols(r.used))

RECURSIVE Concat(_)
Concat(seqs) == IF seqs = <<>> THEN <<>> ELSE seqs[1] \o Concat(Tail(seqs))

MeanOrNone(xs) == IF xs = <<>> THEN None ELSE Some(RMean(xs))

\* the mean of all numeric price cells of the group
FlatMean(group, ncols) ==
  MeanOrNone(Concat([i \in 1..Len(group) |-> NumericRow(group[i])]))

RowMeansValue(group, ncols) == RoundedPrice(MeanOfRowMeans(group, ncols))
FlatMeanValue(group, ncols) == RoundedPrice(FlatMean(group, ncols))

Threads == 1..NumThreads

\* a thread: the view it runs (op), where it is in it (pc), its request
\* (area, f), its local df, and history: expect is the table of the last
\* upload that had returned when the call started, overlapped whether an
\* upload call was running at any time during the call
IdleWorker ==
  [area |-> NoArea, df |-> NoDf, op |-> "none", f |-> NoUpload, pc |-> "idle",
   expect |-> NoDf, overlapped |-> FALSE]

Running(w) == w.pc \notin {"idle", "done"}

UploadRunning == \E t \in Threads : workers[t].op = "upload" /\ Running(workers[t])

ConcUploads ==
  { Attached(<<"a", ".", "x", "l", "s", "x">>, CorruptFile),
    Attached(<<"a", ".", "x", "l", "s", "x">>, Sheet(SheetA)),
    Attached(<<"b", ".", "x", "l", "s">>, Sheet(SheetB)) }

InitConc ==
  /\ cached_df = NoDf
  /\ memo = NoMemo
  /\ file \in {AbsentFile, Sheet(DefaultSheet)}
  /\ resp = NoResponse
  /\ hist = NoHist
  /\ workers = [t \in Threads |-> IdleWorker]
  /\ price_arg = NaCell
  /\ price_ret = NoPrice

\* thread t goes to pc with local table df
Goto(t, pc, df) == workers' = [workers EXCEPT ![t].pc = pc, ![t].df = df]

\* a thread takes a POST to api/analyze/
StartAnalyze(t, area) ==
  /\ ~Running(workers[t])
  /\ hist.calls < MaxCalls
  /\ workers' = [workers EXCEPT ![t] =
       [area |-> area, df |-> NoDf, op |-> "analyze", f |-> NoUpload,
        pc |-> "lookup", expect |-> hist.last, overlapped |-> UploadRunning]]
  /\ hist' = [hist EXCEPT !.calls = @ + 1]
  /\ UNCHANGED <<cached_df, memo, file, resp, price_arg, price_ret>>

\* the lru_cache wrapper looks the call up: a hit returns the memoized
\* result, a miss calls the body
LruLookup(t) ==
  /\ workers[t].op = "analyze" /\ workers[t].pc = "lookup"
  /\ IF memo.set THEN Goto(t, "respond", memo.val)
     ELSE Goto(t, "check_cached", NoDf)
  /\ UNCHANGED <<cached_df, memo, file, resp, hist, price_arg, price_ret>>

\* "if _cached_df is not None: return _cached_df"
BodyCheckCached(t) ==
  /\ workers[t].op = "analyze" /\ workers[t].pc = "check_cached"
  /\ IF cached_df.loaded THEN Goto(t, "store", cached_df)
     ELSE Goto(t, "check_file", NoDf)
  /\ UNCHANGED <<cached_df, memo, file, resp, hist, price_arg, price_ret>>

\* "if not os.path.exists(excel_path): return None"
BodyCheckFile(t) ==
  /\ workers[t].op = "analyze" /\ workers[t].pc = "check_file"
  /\ IF file.kind = "absent" THEN Goto(t, "store", NoDf)
     ELSE Goto(t, "read", NoDf)
  /\ UNCHANGED <<cached_df, memo, file, resp, hist, price_arg, price_ret>>

\* read_excel and the normalisation of the default file into the local df;
\* a failure returns None
BodyRead(t) ==
  /\ workers[t].op = "analyze" /\ workers[t].pc = "read"
  /\ \E r \in {ReadExcel(file)} :
       IF r.ok THEN Goto(t, "assign", r.df) ELSE Goto(t, "store", NoDf)
  /\ UNCHANGED <<cached_df, memo, file, resp, hist, price_arg, price_ret>>

\* "_cached_df = df; return df" of load_dataframe
BodyAssign(t) ==
  /\ workers[t].op = "analyze" /\ workers[t].pc = "assign"
  /\ cached_df' = workers[t].df
  /\ Goto(t, "store", workers[t].df)
  /\ UNCHANGED <<memo, file, resp, hist, price_arg, price_ret>>

\* the lru_cache wrapper keeps the body's result unless the call's entry
\* was stored meanwhile
LruStore(t) ==
  /\ workers[t].op = "analyze" /\ workers[t].pc = "store"
  /\ memo' = IF memo.set THEN memo ELSE Memoized(workers[t].df)
  /\ Goto(t, "respond", workers[t].df)
  /\ UNCHANGED <<cached_df, file, resp, hist, price_arg, price_ret>>

\* the rest of analyze on the table load_dataframe() returned
Respond(t) ==
  /\ workers[t].op = "analyze" /\ workers[t].pc = "respond"
  /\ resp' = Analyze(workers[t].df, workers[t].area)
  /\ Goto(t, "done", workers[t].df)
  /\ UNCHANGED <<cached_df, memo, file, hist, price_arg, price_ret>>

\* a thread takes a POST to api/upload/; the analyze calls in flight overlap it
StartUpload(t, f) ==
  /\ ~Running(workers[t])
  /\ hist.calls < MaxCalls
  /\ workers' = [u \in Threads |->
       IF u = t
         THEN [area |-> NoArea, df |-> NoDf, op |-> "upload", f |-> f,
               pc |-> "parse", expect |-> NoDf, overlapped |-> FALSE]
       ELSE IF Running(workers[u])
         THEN [workers[u] EXCEPT !.overlapped = TRUE]
       ELSE workers[u]]
  /\ hist' = [hist EXCEPT !.calls = @ + 1]
  /\ UNCHANGED <<cached_df, memo, file, resp, price_arg, price_ret>>

\* read_excel and the normalisation of the uploaded file into the local df;
\* a failure is answered at once
UploadRead(t) ==
  /\ workers[t].op = "upload" /\ workers[t].pc = "parse"
  /\ \E r \in {ReadExcel(workers[t].f.content)} :
       IF r.ok
         THEN /\ Goto(t, "assign", r.df)
              /\ UNCHANGED <<resp, hist>>
         ELSE /\ Goto(t, "done", NoDf)
              /\ resp' = UploadFailed
              /\ hist' = [hist EXCEPT !.upload_failed = TRUE]
  /\ UNCHANGED <<cached_df, memo, file, price_arg, price_ret>>

\* "_cached_df = df" of upload_file
UploadAssign(t) ==
  /\ workers[t].op = "upload" /\ workers[t].pc = "assign"
  /\ cached_df' = workers[t].df
  /\ Goto(t, "clear", workers[t].df)
  /\ UNCHANGED <<memo, file, resp, hist, price_arg, price_ret>>

\* "load_dataframe.cache_clear()"
UploadClear(t) ==
  /\ workers[t].op = "upload" /\ workers[t].pc = "clear"
  /\ memo' = NoMemo
  /\ Goto(t, "return", workers[t].df)
  /\ UNCHANGED <<cached_df, file, resp, hist, price_arg, price_ret>>

\* the upload returns its confirmation
UploadReturn(t) ==
  /\ workers[t].op = "upload" /\ workers[t].pc = "return"
  /\ resp' = Uploaded(workers[t].df)
  /\ hist' = [hist EXCEPT !.uploaded = TRUE, !.last = workers[t].df]
  /\ Goto(t, "done", workers[t].df)
  /\ UNCHANGED <<cached_df, memo, file, price_arg, price_ret>>

NextConc ==
  \E t \in Threads :
    \/ \E area \in {Area(<<"p", "u", "n", "e">>)} : StartAnalyze(t, area)
    \/ LruLookup(t)
    \/ BodyCheckCached(t)
    \/ BodyCheckFile(t)
    \/ BodyRead(t)
    \/ BodyAssign(t)
    \/ LruStore(t)
    \/ Respond(t)
    \/ \E f \in ConcUploads : StartUpload(t, f)
    \/ UploadRead(t)
    \/ UploadAssign(t)
    \/ UploadClear(t)
    \/ UploadReturn(t)

SpecConc == InitConc /\ [][NextConc]_vars

\* C9: with upload and analyze running as threads, every analyze call that
\* starts after a successful upload has returned, and that no later upload
\* call overlaps, reads that upload's table, whatever load was in flight
\* while the upload ran.
C9_NoLostUpload ==
  \A t \in Threads :
    ( /\ workers[t].op = "analyze"
      /\ workers[t].pc = "done"
      /\ workers[t].expect.loaded
      /\ ~workers[t].overlapped )
      => workers[t].df = workers[t].expect

=============================================================================
